---- MODULE Spec2Model ----
(***************************************************************************)
(* Model of system_pyside6.py: the module initialisation that resolves the *)
(* host's package and metadata roots, the two locator functions, and the   *)
(* IsolatedPackageFinder / IsolatedDistribution hook objects.              *)
(*                                                                         *)
(* Text that the program inspects character by character (the distro id,   *)
(* package names, directory entry names) is a sequence of one-character    *)
(* strings.  A filesystem path is a sequence of string pieces whose        *)
(* concatenation is the path text; Path(d) / name is the record            *)
(* [root |-> d, name |-> name].                                            *)
(***************************************************************************)
EXTENDS Integers, Sequences, FiniteSets, TLC

\* ------------------------------------------------------------------ bounds

\* Directory entries that may exist at once in the tracked roots.
MaxFsEntries == 2

\* ------------------------------------------------------------------ text

S_fedora == <<"f", "e", "d", "o", "r", "a">>
S_ubuntu == <<"u", "b", "u", "n", "t", "u">>
S_opensuse == <<"o", "p", "e", "n", "s", "u", "s", "e">>
S_opensuse_leap == S_opensuse \o <<"-", "l", "e", "a", "p">>
S_arch == <<"a", "r", "c", "h">>
S_PySide6 == <<"P", "y", "S", "i", "d", "e", "6">>
S_shiboken6 == <<"s", "h", "i", "b", "o", "k", "e", "n", "6">>
S_dist_info == <<".", "d", "i", "s", "t", "-", "i", "n", "f", "o">>
S_egg_info == <<".", "e", "g", "g", "-", "i", "n", "f", "o">>
S_dash == <<"-">>
S_dot == <<".">>

\* str.startswith / str.endswith
startswith(s, prefix) ==
    /\ Len(prefix) <= Len(s)
    /\ SubSeq(s, 1, Len(prefix)) = prefix

endswith(s, suffix) ==
    /\ Len(suffix) <= Len(s)
    /\ SubSeq(s, Len(s) - Len(suffix) + 1, Len(s)) = suffix

\* Decimal text of a natural number, as the f-string formats it.
Digit(d) ==
    CASE d = 0 -> "0" [] d = 1 -> "1" [] d = 2 -> "2" [] d = 3 -> "3"
      [] d = 4 -> "4" [] d = 5 -> "5" [] d = 6 -> "6" [] d = 7 -> "7"
      [] d = 8 -> "8" [] d = 9 -> "9"

RECURSIVE Dec(_)
Dec(n) == IF n < 10 THEN <<Digit(n)>> ELSE Dec(n \div 10) \o <<Digit(n % 10)>>

\* ------------------------------------------------------------------ environment

\* The ID field of os-release: the three table rows, an opensuse flavour
\* (startswith), and an id the table does not know.
Distros == {S_fedora, S_ubuntu, S_opensuse, S_opensuse_leap, S_arch}

\* sys.version_info (major, minor) of the running interpreter.
Versions == {[major |-> 3, minor |-> 9], [major |-> 3, minor |-> 12]}

\* Directories a host interpreter may report from site.getsitepackages().
SiteA == <<"/opt/python/site-packages">>
SiteB == <<"/usr/local/lib/python3/site-packages">>

\* Python values ast.literal_eval can hand back, by type.  items is what
\* iterating the value yields: the elements of a list, the characters of a str.
PyUnset == [t |-> "unset", items |-> <<>>]
PyInt == [t |-> "int", items |-> <<>>]
PyList(items) == [t |-> "list", items |-> items]
PyStr(chars) == [t |-> "str", items |-> [i \in 1..Len(chars) |-> <<chars[i]>>]]

\* What the subprocess of get_system_site can come back with: a non-zero exit
\* status (check=True raises), text that is no literal, or a literal of any type.
NoRun == [rc |-> 0, parse |-> "notrun", value |-> PyUnset]
SubprocessOutcomes ==
    {[rc |-> 1, parse |-> "none", value |-> PyUnset],
     [rc |-> 0, parse |-> "SyntaxError", value |-> PyUnset],
     [rc |-> 0, parse |-> "ok", value |-> PyInt],
     [rc |-> 0, parse |-> "ok", value |-> PyStr(<<"/", "o">>)],
     [rc |-> 0, parse |-> "ok", value |-> PyList(<<>>)],
     [rc |-> 0, parse |-> "ok", value |-> PyList(<<SiteA>>)],
     [rc |-> 0, parse |-> "ok", value |-> PyList(<<SiteA, SiteB>>)],
     [rc |-> 0, parse |-> "ok", value |-> PyList(<<SiteA, SiteA>>)]}

\* ------------------------------------------------------------------ state

VARIABLES
    pc,             \* position in the module body: "layout", "locate_PySide6",
                    \* "locate_shiboken6", "install", "running", "failed"
    err,            \* the exception that ended the module body, "" if none
    DISTRO,         \* platform.freedesktop_os_release()["ID"]
    version_info,   \* sys.version_info
    sub,            \* what the subprocess of get_system_site came back with
    calls,          \* subprocess.run invocations so far
    PACKAGE_DIR,    \* module global
    DIST_INFO_DIR,  \* module global
    package_dirs,   \* the dict handed to IsolatedPackageFinder, in key order
    meta_path,      \* sys.meta_path
    fs,             \* the host filesystem under the roots the program names
    dist,           \* the IsolatedDistribution most recently yielded
    last            \* the most recent call and its result against the current fs

vars == <<pc, err, DISTRO, version_info, sub, calls, PACKAGE_DIR, DIST_INFO_DIR,
          package_dirs, meta_path, fs, dist, last>>

\* f"{v.major}.{v.minor}"
VersText(v) == Dec(v.major) \o S_dot \o Dec(v.minor)

\* VERS = f"{sys.version_info.major}.{sys.version_info.minor}"
VERS == VersText(version_info)

\* ------------------------------------------------------------------ layout table

LibRoot(vers) == <<"/usr/lib/python">> \o vers \o <<"/site-packages/">>
Lib64Root(vers) == <<"/usr/lib64/python">> \o vers \o <<"/site-packages/">>
UbuntuRoot == <<"/usr/lib/python3/dist-packages/">>

\* The chain with the opensuse row compared for equality.
KnownLayout_exact_ids(distro, vers) ==
    IF distro = S_fedora THEN
        [known |-> TRUE, package_dir |-> <<LibRoot(vers)>>,
         dist_info_dir |-> <<Lib64Root(vers)>>]
    ELSE IF distro = S_ubuntu THEN
        [known |-> TRUE, package_dir |-> <<UbuntuRoot>>,
         dist_info_dir |-> <<UbuntuRoot>>]
    ELSE IF distro = S_opensuse THEN
        [known |-> TRUE, package_dir |-> <<Lib64Root(vers)>>,
         dist_info_dir |-> <<Lib64Root(vers)>>]
    ELSE
        [known |-> FALSE, package_dir |-> <<>>, dist_info_dir |-> <<>>]

\* The if / elif chain over DISTRO; known is FALSE on the else branch.
KnownLayout(distro, vers) ==
    IF distro = S_fedora THEN
        [known |-> TRUE, package_dir |-> <<LibRoot(vers)>>,
         dist_info_dir |-> <<Lib64Root(vers)>>]
    ELSE IF distro = S_ubuntu THEN
        [known |-> TRUE, package_dir |-> <<UbuntuRoot>>,
         dist_info_dir |-> <<UbuntuRoot>>]
    ELSE IF startswith(distro, S_opensuse) THEN
        [known |-> TRUE, package_dir |-> <<Lib64Root(vers)>>,
         dist_info_dir |-> <<Lib64Root(vers)>>]
    ELSE
        [known |-> FALSE, package_dir |-> <<>>, dist_info_dir |-> <<>>]

\* ------------------------------------------------------------------ filesystem

\* Every root the program can come to name.
AllRoots ==
    {LibRoot(VersText(v)) : v \in Versions}
        \cup {Lib64Root(VersText(v)) : v \in Versions}
        \cup {UbuntuRoot, SiteA, SiteB, <<"/">>, <<"o">>}

Range(seq) == {seq[i] : i \in 1..Len(seq)}

\* The roots the resolved layout names; only these are tracked.
TrackedRoots == Range(PACKAGE_DIR.items) \cup Range(DIST_INFO_DIR.items)

FileNames == {"METADATA", "RECORD"}
NoFile == ""
NoFiles == [f \in FileNames |-> NoFile]
WithMetadata(text) == [f \in FileNames |-> IF f = "METADATA" THEN text ELSE NoFile]

Dir(name) == [name |-> name, isdir |-> TRUE, files |-> NoFiles]
DirWith(name, text) == [name |-> name, isdir |-> TRUE, files |-> WithMetadata(text)]
File(name) == [name |-> name, isdir |-> FALSE, files |-> NoFiles]

AbsentRoot == [kind |-> "absent", entries |-> <<>>]
FileRoot == [kind |-> "file", entries |-> <<>>]
EmptyDirRoot == [kind |-> "dir", entries |-> <<>>]

RECURSIVE SumLen(_, _)
SumLen(f, S) ==
    IF S = {} THEN 0
    ELSE LET r == CHOOSE x \in S : TRUE IN Len(f[r].entries) + SumLen(f, S \ {r})

FsEntryCount == SumLen(fs, AllRoots)

\* Path(d) / name
Join(d, name) == [root |-> d, name |-> name]

\* Positions of the children of root d that carry the given name.
ChildAt(d, name) == {i \in 1..Len(fs[d].entries) : fs[d].entries[i].name = name}

\* path.exists()
exists(path) == fs[path.root].kind = "dir" /\ ChildAt(path.root, path.name) # {}

\* path.is_dir()
is_dir(path) ==
    /\ fs[path.root].kind = "dir"
    /\ \E i \in ChildAt(path.root, path.name) : fs[path.root].entries[i].isdir

\* ------------------------------------------------------------------ locators

\* locate_package without the is_dir() test.
locate_package_exists_only(package_name) ==
    IF PACKAGE_DIR.t = "int" THEN [status |-> "TypeError", paths |-> <<>>]
    ELSE
        LET hit(d) == exists(Join(d, package_name))
            dirs == SelectSeq(PACKAGE_DIR.items, hit)
        IN  [status |-> "ok",
             paths |-> [i \in 1..Len(dirs) |-> Join(dirs[i], package_name)]]

\* locate_package: every Path(directory) / package_name, directory ranging over
\* PACKAGE_DIR in order, that exists and is a directory.  Iterating an int
\* raises TypeError.
locate_package(package_name) ==
    IF PACKAGE_DIR.t = "int" THEN [status |-> "TypeError", paths |-> <<>>]
    ELSE
        LET hit(d) == exists(Join(d, package_name)) /\ is_dir(Join(d, package_name))
            dirs == SelectSeq(PACKAGE_DIR.items, hit)
        IN  [status |-> "ok",
             paths |-> [i \in 1..Len(dirs) |-> Join(dirs[i], package_name)]]

\* The condition of the if inside the iterdir loop.
entry_matches(entry, pkgname) ==
    /\ entry.isdir
    /\ \/ /\ startswith(entry.name, pkgname \o S_dash)
          /\ \/ endswith(entry.name, S_dist_info)
             \/ endswith(entry.name, S_egg_info)
       \/ \/ entry.name = pkgname \o S_dist_info
          \/ entry.name = pkgname \o S_egg_info

NoPath == [root |-> <<>>, name |-> <<>>]

\* The loop of locate_dist_info_dir from the i-th root on.  exists() is true of
\* a root that is a regular file, and iterdir() on it raises.
RECURSIVE scan_dist_info(_, _)
scan_dist_info(pkgname, i) ==
    IF i > Len(DIST_INFO_DIR.items) THEN [status |-> "none", path |-> NoPath]
    ELSE
        LET directory == DIST_INFO_DIR.items[i]
            entries == fs[directory].entries
            hits == {j \in 1..Len(entries) : entry_matches(entries[j], pkgname)}
        IN  IF fs[directory].kind = "absent" THEN scan_dist_info(pkgname, i + 1)
            ELSE IF fs[directory].kind = "file" THEN
                [status |-> "NotADirectoryError", path |-> NoPath]
            ELSE IF hits = {} THEN scan_dist_info(pkgname, i + 1)
            ELSE
                LET first == CHOOSE j \in hits : \A k \in hits : j <= k
                IN  [status |-> "path", path |-> Join(directory, entries[first].name)]

locate_dist_info_dir(pkgname) == scan_dist_info(pkgname, 1)

\* ------------------------------------------------------------------ IsolatedDistribution

NoDist == [live |-> FALSE, pkgname |-> <<>>, _dist_info |-> NoPath]

\* IsolatedDistribution.__init__: the object, or the exception that leaves it.
IsolatedDistribution(pkgname) ==
    LET found == locate_dist_info_dir(pkgname)
    IN  IF found.status = "NotADirectoryError" THEN
            [status |-> "NotADirectoryError", obj |-> NoDist]
        ELSE IF found.status = "none" THEN
            [status |-> "ImportError", obj |-> NoDist]
        ELSE
            [status |-> "ok",
             obj |-> [live |-> TRUE, pkgname |-> pkgname, _dist_info |-> found.path]]

\* (self._dist_info / filename).exists(): the metadata directory is still a
\* directory child of its root and holds the file.
file_exists(self, filename) ==
    /\ is_dir(self._dist_info)
    /\ \E i \in ChildAt(self._dist_info.root, self._dist_info.name) :
          fs[self._dist_info.root].entries[i].files[filename] # NoFile

file_text(self, filename) ==
    LET i == CHOOSE j \in ChildAt(self._dist_info.root, self._dist_info.name) : TRUE
    IN  fs[self._dist_info.root].entries[i].files[filename]

\* read_text reading METADATA whatever the name asked for.
read_text_of_metadata(self, filename) ==
    IF file_exists(self, "METADATA")
    THEN [status |-> "text", text |-> file_text(self, "METADATA")]
    ELSE [status |-> "none", text |-> ""]

\* IsolatedDistribution.read_text
read_text(self, filename) ==
    IF file_exists(self, filename)
    THEN [status |-> "text", text |-> file_text(self, filename)]
    ELSE [status |-> "none", text |-> ""]

\* IsolatedDistribution.locate_file: self._dist_info.parent / path
locate_file(self, path) == Join(self._dist_info.root, path)

\* ------------------------------------------------------------------ IsolatedPackageFinder

\* The inner loop of find_spec from the i-th path on.  yields is the set of
\* roots at which PathFinder.find_spec(fullname, [root]) returns a spec; tried
\* lists the roots PathFinder was asked about, in order.
RECURSIVE try_paths(_, _, _)
try_paths(pkg_paths, i, yields) ==
    IF i > Len(pkg_paths) THEN [status |-> "none", tried |-> <<>>]
    ELSE
        LET parent == pkg_paths[i].root
        IN  IF parent \in yields THEN [status |-> "spec", tried |-> <<parent>>]
            ELSE LET rest == try_paths(pkg_paths, i + 1, yields)
                 IN  [status |-> rest.status, tried |-> <<parent>> \o rest.tried]

\* The outer loop of find_spec from the k-th key of the dict on.
RECURSIVE find_spec_from(_, _, _, _)
find_spec_from(dirs, k, fullname, yields) ==
    IF k > Len(dirs) THEN [status |-> "none", tried |-> <<>>]
    ELSE
        LET pkg == dirs[k].pkg
            rest == find_spec_from(dirs, k + 1, fullname, yields)
        IN  IF fullname = pkg \/ startswith(fullname, pkg \o S_dot) THEN
                LET here == try_paths(dirs[k].pkg_paths, 1, yields)
                IN  IF here.status = "spec" THEN here
                    ELSE [status |-> rest.status, tried |-> here.tried \o rest.tried]
            ELSE rest

\* find_spec matching fullname against the bare key, without the dot.
RECURSIVE find_spec_from_bare_prefix(_, _, _, _)
find_spec_from_bare_prefix(dirs, k, fullname, yields) ==
    IF k > Len(dirs) THEN [status |-> "none", tried |-> <<>>]
    ELSE
        LET pkg == dirs[k].pkg
            rest == find_spec_from_bare_prefix(dirs, k + 1, fullname, yields)
        IN  IF startswith(fullname, pkg) THEN
                LET here == try_paths(dirs[k].pkg_paths, 1, yields)
                IN  IF here.status = "spec" THEN here
                    ELSE [status |-> rest.status, tried |-> here.tried \o rest.tried]
            ELSE rest

find_spec_bare_prefix(fullname, yields) ==
    find_spec_from_bare_prefix(package_dirs, 1, fullname, yields)

\* IsolatedPackageFinder.find_spec
find_spec(fullname, yields) == find_spec_from(package_dirs, 1, fullname, yields)

\* context.name in self.package_dirs
is_key(name) == \E k \in 1..Len(package_dirs) : package_dirs[k].pkg = name

\* bool(context.name): a name of None and a name of "" are both false.
truthy(context) == context.named /\ context.name # <<>>

\* find_distributions yielding nothing when no metadata directory is found.
find_distributions_silent(context) ==
    IF ~truthy(context) THEN [status |-> "empty", obj |-> NoDist]
    ELSE IF is_key(context.name) THEN
        LET made == IsolatedDistribution(context.name)
        IN  IF made.status = "ok" THEN [status |-> "yield", obj |-> made.obj]
            ELSE [status |-> "empty", obj |-> NoDist]
    ELSE [status |-> "empty", obj |-> NoDist]

\* IsolatedPackageFinder.find_distributions, iterated to its end by the
\* caller.  A context of None is replaced by Context(), whose name is None.
find_distributions(context) ==
    IF ~truthy(context) THEN [status |-> "empty", obj |-> NoDist]
    ELSE IF is_key(context.name) THEN
        LET made == IsolatedDistribution(context.name)
        IN  IF made.status = "ok" THEN [status |-> "yield", obj |-> made.obj]
            ELSE [status |-> made.status, obj |-> NoDist]
    ELSE [status |-> "empty", obj |-> NoDist]

\* ------------------------------------------------------------------ host introspection

\* get_system_site keeping only the first directory reported.
get_system_site_first_only(out) ==
    IF out.rc # 0 THEN [status |-> "CalledProcessError", value |-> PyUnset]
    ELSE IF out.parse # "ok" THEN [status |-> out.parse, value |-> PyUnset]
    ELSE [status |-> "ok",
          value |-> [t |-> out.value.t,
                     items |-> IF out.value.items = <<>> THEN <<>>
                               ELSE <<Head(out.value.items)>>]]

\* get_system_site: subprocess.run(..., check=True) raises on a non-zero exit,
\* ast.literal_eval raises on text that is no literal, and whatever literal the
\* text holds is returned as it is.
get_system_site(out) ==
    IF out.rc # 0 THEN [status |-> "CalledProcessError", value |-> PyUnset]
    ELSE IF out.parse # "ok" THEN [status |-> out.parse, value |-> PyUnset]
    ELSE [status |-> "ok", value |-> out.value]

\* ------------------------------------------------------------------ inputs of the calls

\* A call and what it came back with: paths for the locators and the objects
\* yielded, tried and yields for find_spec, text for read_text.
NoCall ==
    [op |-> "none", arg |-> <<>>, status |-> "", paths |-> <<>>, tried |-> <<>>,
     yields |-> {}, text |-> ""]

Call(op, arg, status, paths, tried, yields, text) ==
    [op |-> op, arg |-> arg, status |-> status, paths |-> paths, tried |-> tried,
     yields |-> yields, text |-> text]

S_PySide6_dist == S_PySide6 \o <<".", "d", "i", "s", "t">>
S_PySide6_QtCore == S_PySide6 \o <<".", "Q", "t", "C", "o", "r", "e">>
S_PySide6x == S_PySide6 \o <<"x">>

PackageNames == {S_PySide6, S_shiboken6}
DistNames == {S_PySide6, S_shiboken6, S_PySide6_dist}
FullNames == {S_PySide6, S_PySide6_QtCore, S_PySide6x, S_shiboken6}
Contexts ==
    {[given |-> FALSE, named |-> FALSE, name |-> <<>>],
     [given |-> TRUE, named |-> FALSE, name |-> <<>>],
     [given |-> TRUE, named |-> TRUE, name |-> <<>>],
     [given |-> TRUE, named |-> TRUE, name |-> S_PySide6],
     [given |-> TRUE, named |-> TRUE, name |-> S_shiboken6],
     [given |-> TRUE, named |-> TRUE, name |-> S_PySide6x]}
RelPaths == {<<"P", "y", "S", "i", "d", "e", "6", "/", "Q", "t">>}

\* ------------------------------------------------------------------ module body

\* The state when the module body starts, on a host of the given kinds.
InitOf(distros, versions) ==
    /\ pc = "layout"
    /\ err = ""
    /\ DISTRO \in distros
    /\ version_info \in versions
    /\ sub = NoRun
    /\ calls = 0
    /\ PACKAGE_DIR = PyUnset
    /\ DIST_INFO_DIR = PyUnset
    /\ package_dirs = <<>>
    /\ meta_path = <<"BuiltinImporter", "FrozenImporter", "PathFinder">>
    /\ fs = [r \in AllRoots |-> AbsentRoot]
    /\ dist = NoDist
    /\ last = NoCall

\* Lines 43-51: a row of the table.
ResolveKnown ==
    /\ pc = "layout"
    /\ KnownLayout(DISTRO, VERS).known
    /\ PACKAGE_DIR' = PyList(KnownLayout(DISTRO, VERS).package_dir)
    /\ DIST_INFO_DIR' = PyList(KnownLayout(DISTRO, VERS).dist_info_dir)
    /\ pc' = "locate_PySide6"
    /\ UNCHANGED <<err, DISTRO, version_info, sub, calls, package_dirs, meta_path,
                   fs, dist, last>>

\* Lines 52-53: the else branch, PACKAGE_DIR = DIST_INFO_DIR = get_system_site(),
\* with the subprocess coming back with one of outcomes.
ResolveFallbackFrom(outcomes) ==
    /\ pc = "layout"
    /\ ~KnownLayout(DISTRO, VERS).known
    /\ \E out \in outcomes :
          LET site == get_system_site(out)
          IN  /\ sub' = out
              /\ calls' = calls + 1
              /\ IF site.status = "ok"
                 THEN /\ PACKAGE_DIR' = site.value
                      /\ DIST_INFO_DIR' = site.value
                      /\ pc' = "locate_PySide6"
                      /\ err' = err
                 ELSE /\ pc' = "failed"
                      /\ err' = site.status
                      /\ UNCHANGED <<PACKAGE_DIR, DIST_INFO_DIR>>
    /\ UNCHANGED <<DISTRO, version_info, package_dirs, meta_path, fs, dist, last>>

\* One value of the dict literal of lines 153-156.
LocateTarget(pkg, then) ==
    LET found == locate_package(pkg)
    IN  /\ IF found.status = "ok"
           THEN /\ package_dirs' =
                       Append(package_dirs, [pkg |-> pkg, pkg_paths |-> found.paths])
                /\ pc' = then
                /\ err' = err
           ELSE /\ pc' = "failed"
                /\ err' = found.status
                /\ UNCHANGED package_dirs
        /\ UNCHANGED <<DISTRO, version_info, sub, calls, PACKAGE_DIR, DIST_INFO_DIR,
                       meta_path, fs, dist, last>>

LocatePySide6 == pc = "locate_PySide6" /\ LocateTarget(S_PySide6, "locate_shiboken6")

LocateShiboken6 == pc = "locate_shiboken6" /\ LocateTarget(S_shiboken6, "install")

\* The finder appended to sys.meta_path instead of inserted at its head.
InstallHook_appended ==
    /\ pc = "install"
    /\ meta_path' = Append(meta_path, "IsolatedPackageFinder")
    /\ pc' = "running"
    /\ UNCHANGED <<err, DISTRO, version_info, sub, calls, PACKAGE_DIR, DIST_INFO_DIR,
                   package_dirs, fs, dist, last>>

\* sys.meta_path.insert(0, IsolatedPackageFinder({...}))
InstallHook ==
    /\ pc = "install"
    /\ meta_path' = <<"IsolatedPackageFinder">> \o meta_path
    /\ pc' = "running"
    /\ UNCHANGED <<err, DISTRO, version_info, sub, calls, PACKAGE_DIR, DIST_INFO_DIR,
                   package_dirs, fs, dist, last>>

\* ------------------------------------------------------------------ requests

frame == <<pc, err, DISTRO, version_info, sub, calls, PACKAGE_DIR, DIST_INFO_DIR,
           package_dirs, meta_path, fs>>

\* An import of fullname reaches the finder at the head of sys.meta_path.
FindSpec ==
    /\ pc = "running"
    /\ \E fullname \in FullNames, yields \in SUBSET Range(PACKAGE_DIR.items) :
          LET r == find_spec(fullname, yields)
          IN  last' = Call("find_spec", fullname, r.status, <<>>, r.tried, yields, "")
    /\ UNCHANGED <<frame, dist>>

\* importlib.metadata asks the finder for distributions and iterates the result.
FindDistributions ==
    /\ pc = "running"
    /\ \E context \in Contexts :
          LET r == find_distributions(context)
          IN  /\ last' = Call("find_distributions", context.name, r.status,
                              IF r.status = "yield" THEN <<r.obj._dist_info>> ELSE <<>>,
                              <<>>, {}, "")
              /\ dist' = IF r.status = "yield" THEN r.obj ELSE dist
    /\ UNCHANGED frame

ReadText ==
    /\ pc = "running"
    /\ dist.live
    /\ \E filename \in FileNames :
          LET r == read_text(dist, filename)
          IN  last' = Call("read_text", <<filename>>, r.status, <<>>, <<>>, {}, r.text)
    /\ UNCHANGED <<frame, dist>>

LocateFile ==
    /\ pc = "running"
    /\ dist.live
    /\ \E path \in RelPaths :
          last' = Call("locate_file", path, "ok", <<locate_file(dist, path)>>, <<>>,
                      {}, "")
    /\ UNCHANGED <<frame, dist>>

CallLocatePackage ==
    /\ pc = "running"
    /\ \E name \in PackageNames :
          LET r == locate_package(name)
          IN  last' = Call("locate_package", name, r.status, r.paths, <<>>, {}, "")
    /\ UNCHANGED <<frame, dist>>

CallLocateDistInfoDir ==
    /\ pc = "running"
    /\ \E name \in DistNames :
          LET r == locate_dist_info_dir(name)
          IN  last' = Call("locate_dist_info_dir", name, r.status,
                           IF r.status = "path" THEN <<r.path>> ELSE <<>>, <<>>, {}, "")
    /\ UNCHANGED <<frame, dist>>

\* ------------------------------------------------------------------ the host changes

env == <<pc, err, DISTRO, version_info, sub, calls, PACKAGE_DIR, DIST_INFO_DIR,
         package_dirs, meta_path, dist>>

InsertAt(seq, i, e) == SubSeq(seq, 1, i - 1) \o <<e>> \o SubSeq(seq, i, Len(seq))
RemoveAt(seq, i) == SubSeq(seq, 1, i - 1) \o SubSeq(seq, i + 1, Len(seq))

\* While the program is at one of phases: a tracked root is created as an empty
\* directory or as a regular file, or is removed with what it holds.
HostSetsRoot(phases) ==
    /\ pc \in phases
    /\ \E r \in TrackedRoots, new \in {AbsentRoot, FileRoot, EmptyDirRoot} :
          /\ fs[r] # new
          /\ fs' = [fs EXCEPT ![r] = new]
    /\ last' = NoCall
    /\ UNCHANGED env

\* A child out of universe appears in a tracked root, anywhere in the listing.
HostAddsEntry(universe, cap, phases) ==
    /\ pc \in phases
    /\ FsEntryCount < cap
    /\ \E r \in TrackedRoots, e \in universe, i \in 1..cap :
          /\ fs[r].kind = "dir"
          /\ ChildAt(r, e.name) = {}
          /\ i <= Len(fs[r].entries) + 1
          /\ fs' = [fs EXCEPT ![r].entries = InsertAt(@, i, e)]
    /\ last' = NoCall
    /\ UNCHANGED env

HostRemovesEntry(phases) ==
    /\ pc \in phases
    /\ \E r \in TrackedRoots :
          \E i \in 1..Len(fs[r].entries) :
              fs' = [fs EXCEPT ![r].entries = RemoveAt(@, i)]
    /\ last' = NoCall
    /\ UNCHANGED env

AfterLayout == {"locate_PySide6", "locate_shiboken6", "install", "running"}

\* ------------------------------------------------------------------ the whole module

\* Every distro, version and subprocess outcome; every request; a host that
\* installs or removes PySide6 and its metadata at any time.
LifecycleEntries ==
    {Dir(S_PySide6), DirWith(S_PySide6 \o S_dist_info, "Name: PySide6")}

Init == InitOf(Distros, Versions)

ResolveFallback == ResolveFallbackFrom(SubprocessOutcomes)
FsSetRoot == HostSetsRoot(AfterLayout)
FsAddEntry == HostAddsEntry(LifecycleEntries, MaxFsEntries, AfterLayout)
FsRemoveEntry == HostRemovesEntry(AfterLayout)

Next ==
    \/ ResolveKnown
    \/ ResolveFallback
    \/ LocatePySide6
    \/ LocateShiboken6
    \/ InstallHook
    \/ FindSpec
    \/ FindDistributions
    \/ ReadText
    \/ LocateFile
    \/ CallLocatePackage
    \/ CallLocateDistInfoDir
    \/ FsSetRoot
    \/ FsAddEntry
    \/ FsRemoveEntry

Spec == Init /\ [][Next]_vars

\* ------------------------------------------------------------------ the locators

\* The locators called directly on a running program, on a host whose roots
\* hold every shape of child name the match distinguishes.
LocatorEntries ==
    {Dir(S_PySide6), File(S_PySide6), Dir(S_shiboken6),
     Dir(S_PySide6 \o S_dist_info),
     File(S_PySide6 \o S_dist_info),
     Dir(S_PySide6 \o S_egg_info),
     Dir(S_PySide6 \o <<"-", "6", ".", "7">> \o S_dist_info),
     Dir(S_PySide6 \o <<"-", "6", ".", "7">> \o S_egg_info),
     Dir(S_PySide6 \o <<"x">> \o S_dist_info),
     Dir(S_PySide6 \o <<"-", "6", ".", "7">>)}

LocatorOutcomes ==
    {out \in SubprocessOutcomes : out.value.t = "list" /\ out.value.items # <<>>}

InitLocate == InitOf({S_fedora, S_arch}, {[major |-> 3, minor |-> 12]})

ResolveFallbackLocate == ResolveFallbackFrom(LocatorOutcomes)
FsSetRootLocate == HostSetsRoot({"running"})
FsAddEntryLocate == HostAddsEntry(LocatorEntries, MaxFsEntries, {"running"})
FsRemoveEntryLocate == HostRemovesEntry({"running"})

NextLocate ==
    \/ ResolveKnown
    \/ ResolveFallbackLocate
    \/ LocatePySide6
    \/ LocateShiboken6
    \/ InstallHook
    \/ CallLocatePackage
    \/ CallLocateDistInfoDir
    \/ FsSetRootLocate
    \/ FsAddEntryLocate
    \/ FsRemoveEntryLocate

SpecLocate == InitLocate /\ [][NextLocate]_vars

\* ------------------------------------------------------------------ the hook

\* The finder and the distribution objects it yields, on a host where the two
\* packages and their metadata come and go before and after installation.
HookEntries ==
    {Dir(S_PySide6),
     DirWith(S_PySide6 \o S_dist_info, "Name: PySide6"),
     DirWith(S_shiboken6 \o <<"-", "6", ".", "7">> \o S_egg_info, "Name: shiboken6")}

HookOutcomes == {out \in SubprocessOutcomes : out.value = PyList(<<SiteA, SiteB>>)}

InitHook == InitOf({S_fedora, S_arch}, {[major |-> 3, minor |-> 12]})

ResolveFallbackHook == ResolveFallbackFrom(HookOutcomes)
FsSetRootHook == HostSetsRoot(AfterLayout)
FsAddEntryHook == HostAddsEntry(HookEntries, MaxFsEntries, AfterLayout)
FsRemoveEntryHook == HostRemovesEntry(AfterLayout)

NextHook ==
    \/ ResolveKnown
    \/ ResolveFallbackHook
    \/ LocatePySide6
    \/ LocateShiboken6
    \/ InstallHook
    \/ FindSpec
    \/ FindDistributions
    \/ ReadText
    \/ LocateFile
    \/ FsSetRootHook
    \/ FsAddEntryHook
    \/ FsRemoveEntryHook

SpecHook == InitHook /\ [][NextHook]_vars

\* ------------------------------------------------------------------ properties of the locators

\* A child name of one of the four documented forms for NAME: NAME.dist-info,
\* NAME.egg-info, NAME-<anything>.dist-info, NAME-<anything>.egg-info.
HasForm(name, NAME, suffix) ==
    \/ name = NAME \o suffix
    \/ /\ Len(name) >= Len(NAME) + 1 + Len(suffix)
       /\ SubSeq(name, 1, Len(NAME) + 1) = NAME \o S_dash
       /\ SubSeq(name, Len(name) - Len(suffix) + 1, Len(name)) = suffix

DocumentedForm(name, NAME) ==
    HasForm(name, NAME, S_dist_info) \/ HasForm(name, NAME, S_egg_info)

\* The children of the metadata roots that are directories of a documented form.
DocumentedChildren(NAME) ==
    {Join(d, e.name) : <<d, e>> \in
        {<<d, e>> \in Range(DIST_INFO_DIR.items) \X UNION {Range(fs[r].entries) : r \in AllRoots} :
            /\ fs[d].kind = "dir"
            /\ e \in Range(fs[d].entries)
            /\ e.isdir
            /\ DocumentedForm(e.name, NAME)}}

\* C1: locate_dist_info_dir(NAME) returns a child only if the child is a
\* directory whose name is NAME.dist-info, NAME.egg-info,
\* NAME-<anything>.dist-info or NAME-<anything>.egg-info, and whenever a root
\* holds such a directory the call returns one.
C1_AcceptsExactlyDocumentedForms ==
    last.op = "locate_dist_info_dir" =>
        /\ last.status = "path" => last.paths[1] \in DocumentedChildren(last.arg)
        /\ (last.status # "NotADirectoryError" /\ DocumentedChildren(last.arg) # {})
               => last.status = "path"

\* The (root position, child position) pairs locate_dist_info_dir would accept,
\* over the roots that are directories.
MatchPositions(pkgname) ==
    {p \in (1..Len(DIST_INFO_DIR.items)) \X (1..MaxFsEntries + 1) :
        LET d == DIST_INFO_DIR.items[p[1]]
        IN  /\ fs[d].kind = "dir"
            /\ p[2] <= Len(fs[d].entries)
            /\ entry_matches(fs[d].entries[p[2]], pkgname)}

Before(p, q) == p[1] < q[1] \/ (p[1] = q[1] /\ p[2] <= q[2])

\* C2: locate_dist_info_dir returns the first match of the iteration over the
\* roots in order and each root's children in listing order, and returns none,
\* without raising, when no root exists or no child matches.
C2_FirstMatchOrNoneNeverRaises ==
    last.op = "locate_dist_info_dir" =>
        LET M == MatchPositions(last.arg)
        IN  /\ last.status \in {"path", "none"}
            /\ M = {} => last.status = "none"
            /\ M # {} =>
                  LET first == CHOOSE p \in M : \A q \in M : Before(p, q)
                      d == DIST_INFO_DIR.items[first[1]]
                  IN  /\ last.status = "path"
                      /\ last.paths = <<Join(d, fs[d].entries[first[2]].name)>>

\* The positions in PACKAGE_DIR of the roots that hold a directory named name.
HoldingRoots(name) ==
    {i \in 1..Len(PACKAGE_DIR.items) :
        LET d == PACKAGE_DIR.items[i]
        IN  /\ fs[d].kind = "dir"
            /\ \E j \in 1..Len(fs[d].entries) :
                  fs[d].entries[j].name = name /\ fs[d].entries[j].isdir}

Kth(I, k) == CHOOSE i \in I : Cardinality({j \in I : j <= i}) = k

\* C3: locate_package(X) returns exactly root/X for each root, in root order
\* and without deduplication, in which X exists and is a directory; it never
\* raises, and returns nothing when no root holds such a directory.
C3_OnePathPerHoldingRoot ==
    last.op = "locate_package" =>
        LET I == HoldingRoots(last.arg)
        IN  /\ last.status = "ok"
            /\ Len(last.paths) = Cardinality(I)
            /\ \A k \in 1..Cardinality(I) :
                  last.paths[k] = Join(PACKAGE_DIR.items[Kth(I, k)], last.arg)

\* locate_package found the package under two different roots while another
\* call found a root missing or holding only a file of that name.
C3_Witness ==
    /\ last.op = "locate_package"
    /\ Len(last.paths) = 2
    /\ last.paths[1].root # last.paths[2].root

\* ------------------------------------------------------------------ properties of the hook

\* The key of the TargetPackageMap that fullname equals or is a submodule of.
TargetOf(fullname) ==
    {pkg \in {S_PySide6, S_shiboken6} :
        \/ fullname = pkg
        \/ /\ Len(fullname) > Len(pkg)
           /\ SubSeq(fullname, 1, Len(pkg) + 1) = pkg \o S_dot}

\* The parents of the directories the map holds for pkg, in order.
LocatedParents(pkg) ==
    LET k == CHOOSE j \in 1..Len(package_dirs) : package_dirs[j].pkg = pkg
    IN  [i \in 1..Len(package_dirs[k].pkg_paths) |-> package_dirs[k].pkg_paths[i].root]

\* C4: find_spec asks the path-based finder only for a fullname that equals a
\* key or starts with key + ".", about the parents of that key's located
\* directories in order, and returns the first spec it gets; it declines for a
\* fullname outside the target set, for an empty list of located directories,
\* and when no parent yields a spec.
C4_FirstSpecOfLocatedParentsOrDecline ==
    last.op = "find_spec" =>
        /\ last.status \in {"spec", "none"}
        /\ TargetOf(last.arg) = {} => last.status = "none" /\ last.tried = <<>>
        /\ \A pkg \in TargetOf(last.arg) :
              LET parents == LocatedParents(pkg)
                  n == Len(last.tried)
              IN  /\ n <= Len(parents)
                  /\ last.tried = SubSeq(parents, 1, n)
                  /\ \A i \in 1..n - 1 : last.tried[i] \notin last.yields
                  /\ last.status = "spec" => n >= 1 /\ last.tried[n] \in last.yields
                  /\ last.status = "none" =>
                        n = Len(parents) /\ \A i \in 1..n : last.tried[i] \notin last.yields

\* find_spec got no spec from the first located directory's parent and
\* returned the spec the second one's parent gave.
C4_Witness ==
    /\ last.op = "find_spec"
    /\ last.status = "spec"
    /\ Len(last.tried) = 2
    /\ last.arg # S_PySide6

\* C5: find_distributions yields nothing when no name is requested or the name
\* is not a target name; for a target name it yields exactly one object backed
\* by the directory locate_dist_info_dir returns at that moment, and fails with
\* ImportError when locate_dist_info_dir returns none.
C5_OneDistributionOrImportError ==
    last.op = "find_distributions" =>
        IF last.arg \notin {S_PySide6, S_shiboken6}
        THEN last.status = "empty" /\ last.paths = <<>>
        ELSE
            LET found == locate_dist_info_dir(last.arg)
            IN  /\ found.status = "path" =>
                      /\ last.status = "yield"
                      /\ last.paths = <<found.path>>
                      /\ dist = [live |-> TRUE, pkgname |-> last.arg,
                                 _dist_info |-> found.path]
                /\ found.status = "none" =>
                      last.status = "ImportError" /\ last.paths = <<>>

\* A distribution was yielded for shiboken6 although no shiboken6 package
\* directory had been located.
C5_Witness ==
    /\ last.op = "find_distributions"
    /\ last.status = "yield"
    /\ last.arg = S_shiboken6
    /\ package_dirs[2].pkg_paths = <<>>

\* What the files named filename under the directory behind self hold.
Contents(self, filename) ==
    {e.files[filename] :
        e \in {c \in Range(fs[self._dist_info.root].entries) :
                  /\ fs[self._dist_info.root].kind = "dir"
                  /\ c.name = self._dist_info.name
                  /\ c.isdir
                  /\ c.files[filename] # NoFile}}

InTable ==
    \/ DISTRO = S_fedora
    \/ DISTRO = S_ubuntu
    \/ Len(DISTRO) >= Len(S_opensuse) /\ SubSeq(DISTRO, 1, Len(S_opensuse)) = S_opensuse

HookAt == {i \in 1..Len(meta_path) : meta_path[i] = "IsolatedPackageFinder"}

\* The subprocess exited with 0 and printed a literal list of strings.
ListOfStrings == sub.rc = 0 /\ sub.parse = "ok" /\ sub.value.t = "list"

\* C6: when the subprocess exits non-zero or its output is no literal list of
\* strings, the module body ends in a failure: nothing is located from the
\* result, the hook is not installed, and the subprocess is not run again.
C6_BadIntrospectionIsFatal ==
    (sub # NoRun /\ ~ListOfStrings) =>
        /\ pc \in {"locate_PySide6", "failed"}
        /\ package_dirs = <<>>
        /\ HookAt = {}
        /\ last = NoCall
        /\ calls = 1

\* C7: for a distro id outside the table the subprocess is run exactly once,
\* its parsed result is both PACKAGE_DIR and DIST_INFO_DIR, and no later step
\* runs it again.
C7_FallbackOnceAndVerbatim ==
    ~InTable =>
        /\ pc = "layout" => calls = 0
        /\ pc # "layout" =>
              /\ calls = 1
              /\ sub # NoRun
              /\ (sub.rc = 0 /\ sub.parse = "ok") =>
                    PACKAGE_DIR = sub.value /\ DIST_INFO_DIR = sub.value

\* An unknown distro whose subprocess reported two directories, with the hook
\* installed and a request served.
C7_Witness ==
    /\ ~InTable
    /\ pc = "running"
    /\ last.op = "find_spec"
    /\ sub.value = PyList(<<SiteA, SiteB>>)

\* The text of major.minor for the interpreters considered.
VersionText ==
    IF version_info = [major |-> 3, minor |-> 9] THEN <<"3", ".", "9">>
    ELSE IF version_info = [major |-> 3, minor |-> 12] THEN <<"3", ".", "1", "2">>
    ELSE <<"?">>

\* C8: for fedora, ubuntu and every id starting with opensuse, and every
\* interpreter version, the roots are the table's non-empty lists (with the
\* version in the path for fedora and opensuse, lib for fedora's packages and
\* lib64 for its metadata) and the subprocess is never run.
C8_TableRootsWithoutSubprocess ==
    (InTable /\ pc # "layout") =>
        /\ calls = 0
        /\ sub = NoRun
        /\ PACKAGE_DIR.t = "list" /\ DIST_INFO_DIR.t = "list"
        /\ DISTRO = S_fedora =>
              /\ PACKAGE_DIR.items =
                    <<(<<"/usr/lib/python">> \o VersionText \o <<"/site-packages/">>)>>
              /\ DIST_INFO_DIR.items =
                    <<(<<"/usr/lib64/python">> \o VersionText \o <<"/site-packages/">>)>>
        /\ DISTRO = S_ubuntu =>
              /\ PACKAGE_DIR.items = <<(<<"/usr/lib/python3/dist-packages/">>)>>
              /\ DIST_INFO_DIR.items = <<(<<"/usr/lib/python3/dist-packages/">>)>>
        /\ DISTRO \notin {S_fedora, S_ubuntu} =>
              /\ PACKAGE_DIR.items =
                    <<(<<"/usr/lib64/python">> \o VersionText \o <<"/site-packages/">>)>>
              /\ DIST_INFO_DIR.items = PACKAGE_DIR.items

\* An opensuse flavour on a two-digit minor version, with the hook installed.
C8_Witness ==
    /\ DISTRO = S_opensuse_leap
    /\ version_info.minor = 12
    /\ pc = "running"
    /\ PACKAGE_DIR.items # <<>>

\* The order of the module body, and the hook's place in sys.meta_path.
InitOrder ==
    /\ package_dirs # <<>> => PACKAGE_DIR.t # "unset" /\ DIST_INFO_DIR.t # "unset"
    /\ HookAt # {} <=> pc = "running"
    /\ HookAt # {} =>
          /\ HookAt = {1}
          /\ Len(package_dirs) = 2
          /\ package_dirs[1].pkg = S_PySide6
          /\ package_dirs[2].pkg = S_shiboken6
    /\ last.op = "find_spec" =>
          \A i \in 1..Len(last.tried) :
              \E k \in 1..Len(package_dirs) :
                  \E j \in 1..Len(package_dirs[k].pkg_paths) :
                      package_dirs[k].pkg_paths[j].root = last.tried[i]

\* Once the hook is installed nothing changes the roots, the map or the chain.
FrozenAfterInstall ==
    pc = "running" =>
        /\ pc' = "running"
        /\ PACKAGE_DIR' = PACKAGE_DIR
        /\ DIST_INFO_DIR' = DIST_INFO_DIR
        /\ package_dirs' = package_dirs
        /\ meta_path' = meta_path
        /\ calls' = calls

\* C10: the module body resolves the roots, locates both packages, then
\* installs the hook once, at the head of sys.meta_path; afterwards no request
\* and no change of the filesystem alters the roots, the map or the chain, and
\* find_spec consults only the directories located at installation.
C10_InstalledOnceThenFrozen == [](InitOrder) /\ [][FrozenAfterInstall]_vars

\* After installation the host gained a PySide6 directory the map does not
\* hold, and find_spec was then asked for PySide6.
C10_Witness ==
    /\ pc = "running"
    /\ last.op = "find_spec"
    /\ last.arg = S_PySide6
    /\ package_dirs[1].pkg_paths = <<>>
    /\ locate_package(S_PySide6).paths # <<>>

====
